---- MODULE Spec2Model ----
(***************************************************************************)
(* Size-control state machine of the excision boundary: the DeltaR state   *)
(* (src/src/ControlSystem/ControlErrors/Size/DeltaR.cpp).                  *)
(*                                                                         *)
(* Numbers are fixed point.  Times (damping_time, the predicted crossing   *)
(* times, suggested_time_scale) are in units of 0.1, speeds and the        *)
(* control error in units of 1e-3, and the three dimensionless factors of  *)
(* the source (0.99, 1.01, 0.99) are in hundredths.  Damping times and     *)
(* min_char_speed are drawn from multiples of 100 units, so the products   *)
(* with the factors are exact.  A std::optional<double> is the empty set   *)
(* (std::nullopt) or a one-element set.                                    *)
(***************************************************************************)
EXTENDS Integers, Sequences, FiniteSets

\* Largest damping time of the model, in units of 10.0 (100 time units).
MaxDamping == 1
\* Largest |control_error_delta_r| of the model, in units of 1e-3.
MaxErr == 2

\* constexpr double delta_r_control_error_threshold = 1.e-3  (units of 1e-3)
delta_r_control_error_threshold == 1
\* constexpr double time_tolerance_for_delta_r_in_danger = 0.99  (hundredths)
time_tolerance_for_delta_r_in_danger == 99
\* constexpr double non_oscillation_factor = 1.01  (hundredths)
non_oscillation_factor == 101
\* constexpr double delta_r_state_decrease_factor = 0.99  (hundredths)
delta_r_state_decrease_factor == 99

VARIABLES
  info,                \* the Info the driver owns and hands to update
  info_before,         \* the Info as it was when the last update was entered
  update_args,         \* the StateUpdateArgs of the last update
  crossing_time_info,  \* the CrossingTimeInfo of the last update
  in_danger,           \* the two danger booleans the last update computed
  diagnostic,          \* the string the last update returned
  written,             \* the fields of Info the last update assigned to
  control_error_args,  \* the ControlErrorArgs of the last control_error
  control_error_result, \* the value the last control_error returned
  pc                   \* "idle" between evaluations, "returned" once update has
                       \* run, "published" once control_error has run

vars ==
  <<info, info_before, update_args, crossing_time_info, in_danger,
    diagnostic, written, control_error_args, control_error_result, pc>>

----------------------------------------------------------------------------
(* std::optional<double> *)

nullopt == {}

optional(v) == {v}

has_value(o) == o # {}

value(o) == CHOOSE v \in o : TRUE

\* Variant: an absent value counts as 0, not as infinity.
value_or_zero_less(o, bound) ==
  (IF has_value(o) THEN value(o) ELSE 0) < bound

\* o.value_or(infinity) < bound, for a finite bound: infinity is never less.
value_or_infinity_less(o, bound) ==
  IF has_value(o) THEN value(o) < bound ELSE FALSE

\* x * f for a factor f given in hundredths.
times(x, f) == (x * f) \div 100

abs(x) == IF x < 0 THEN 0 - x ELSE x

----------------------------------------------------------------------------
(* The values the model draws its inputs from. *)

States == {"Initial", "AhSpeed", "DeltaR", "DeltaRDriftInward", "DeltaRDriftOutward"}

\* damping_time: negative, zero, and 10.0, 20.0, ...
DampingTimes == {100 * k : k \in -1 .. MaxDamping}

\* For each positive damping time d, the two thresholds 0.99 d and d themselves.
ThresholdTimes ==
  {99 * k : k \in 1 .. MaxDamping} \cup {100 * k : k \in 1 .. MaxDamping}

\* Predicted crossing times of the char speed: absent, 3.0, the thresholds.
CharSpeedTimes == {nullopt} \cup {optional(t) : t \in {30} \cup ThresholdTimes}

\* Predicted crossing times of the radius: absent, 5.0, the thresholds.
DeltaRadiusTimes == {nullopt} \cup {optional(t) : t \in {50} \cup ThresholdTimes}

\* -0.1, 0, 0.5
ComovingCharSpeeds == {-100, 0, 500}

\* -0.2, 0.1
CharSpeeds == {-200, 100}

ControlErrors == (0 - MaxErr) .. MaxErr

StateUpdateArgs ==
  [control_error_delta_r : ControlErrors,
   min_char_speed : CharSpeeds,
   min_comoving_char_speed : ComovingCharSpeeds]

CrossingTimeInfo ==
  [t_char_speed : CharSpeedTimes,
   t_delta_radius : DeltaRadiusTimes,
   t_comoving_char_speed : {nullopt, optional(70)},
   char_speed_will_hit_zero_first : BOOLEAN,
   horizon_will_hit_excision_boundary_first : BOOLEAN]

----------------------------------------------------------------------------
(* The pieces of the diagnostic string: text, a double, an optional. *)

text(s) == [text |-> s]

double(x) == [double |-> x]

opt(o) == [optional |-> o]

----------------------------------------------------------------------------
(* DeltaR::update *)

\* Variant: the radius is compared with damping_time itself.
delta_radius_is_in_danger_without_tolerance(i, c) ==
  /\ c.horizon_will_hit_excision_boundary_first
  /\ value_or_infinity_less(c.t_delta_radius, i.damping_time)

\* Variant: once a timescale has been suggested, the radius is compared with
\* it and not with damping_time.
delta_radius_is_in_danger_against_suggestion(i, c) ==
  /\ c.horizon_will_hit_excision_boundary_first
  /\ value_or_infinity_less(c.t_delta_radius,
        times(IF has_value(i.suggested_time_scale)
                THEN value(i.suggested_time_scale)
                ELSE i.damping_time,
              time_tolerance_for_delta_r_in_danger))

delta_radius_is_in_danger(i, c) ==
  /\ c.horizon_will_hit_excision_boundary_first
  /\ value_or_infinity_less(c.t_delta_radius,
                            times(i.damping_time, time_tolerance_for_delta_r_in_danger))

\* Variant: the char speed is flagged whether or not the radius is.
char_speed_is_in_danger_without_exclusion(i, c) ==
  /\ c.char_speed_will_hit_zero_first
  /\ value_or_infinity_less(c.t_char_speed, i.damping_time)

char_speed_is_in_danger(i, c) ==
  /\ c.char_speed_will_hit_zero_first
  /\ value_or_infinity_less(c.t_char_speed, i.damping_time)
  /\ ~ delta_radius_is_in_danger(i, c)

\* Variant: only an already negative comoving speed counts.
comoving_char_speed_only_negative(a, c) ==
  a.min_comoving_char_speed < 0

\* Variant: a comoving speed of exactly zero counts as negative.
comoving_char_speed_not_positive(a, c) ==
  \/ has_value(c.t_comoving_char_speed)
  \/ a.min_comoving_char_speed <= 0

\* Line 54: staying in DeltaR will not rescue the char speed.
comoving_char_speed_will_not_recover(a, c) ==
  \/ has_value(c.t_comoving_char_speed)
  \/ a.min_comoving_char_speed < 0

\* Variant: the target is min_char_speed itself, without the factor.
switch_to_AhSpeed_without_factor(i, a) ==
  LET j == [i EXCEPT !.discontinuous_change_has_occurred = TRUE,
                     !.state = "AhSpeed",
                     !.target_char_speed = optional(a.min_char_speed)]
  IN [info |-> j,
      written |-> {"discontinuous_change_has_occurred", "state", "target_char_speed"},
      ss |-> <<text(" Switching to AhSpeed.\n"),
               text(" Target char speed = "), opt(j.target_char_speed), text("\n")>>]

\* Variant: the switch does not raise discontinuous_change_has_occurred.
switch_to_AhSpeed_without_flag(i, a) ==
  LET j == [i EXCEPT !.state = "AhSpeed",
                     !.target_char_speed =
                        optional(times(a.min_char_speed, non_oscillation_factor))]
  IN [info |-> j,
      written |-> {"state", "target_char_speed"},
      ss |-> <<text(" Switching to AhSpeed.\n"),
               text(" Target char speed = "), opt(j.target_char_speed), text("\n")>>]

\* Variant: the switch leaves target_char_speed alone.
switch_to_AhSpeed_without_target(i, a) ==
  LET j == [i EXCEPT !.discontinuous_change_has_occurred = TRUE,
                     !.state = "AhSpeed"]
  IN [info |-> j,
      written |-> {"discontinuous_change_has_occurred", "state"},
      ss |-> <<text(" Switching to AhSpeed.\n"),
               text(" Target char speed = "), opt(j.target_char_speed), text("\n")>>]

\* Lines 65-70: the switch to AhSpeed.
switch_to_AhSpeed(i, a) ==
  LET j == [i EXCEPT !.discontinuous_change_has_occurred = TRUE,
                     !.state = "AhSpeed",
                     !.target_char_speed =
                        optional(times(a.min_char_speed, non_oscillation_factor))]
  IN [info |-> j,
      written |-> {"discontinuous_change_has_occurred", "state", "target_char_speed"},
      ss |-> <<text(" Switching to AhSpeed.\n"),
               text(" Target char speed = "), opt(j.target_char_speed), text("\n")>>]

\* Variant: the string is put together before suggested_time_scale is assigned.
char_speed_branch_reporting_previous(i, a, c) ==
  LET head == <<text("Current state DeltaR. Char speed in danger.")>>
      sub == IF comoving_char_speed_will_not_recover(a, c)
               THEN switch_to_AhSpeed(i, a)
               ELSE [info |-> i, written |-> {},
                     ss |-> <<text(" Staying in DeltaR.\n")>>]
      j == [sub.info EXCEPT !.suggested_time_scale = c.t_char_speed]
  IN [info |-> j,
      written |-> sub.written \cup {"suggested_time_scale"},
      ss |-> head \o sub.ss
               \o <<text(" Suggested timescale = "), opt(sub.info.suggested_time_scale)>>]

\* Variant: target_char_speed is assigned in both sub-cases.
char_speed_branch_always_targeting(i, a, c) ==
  LET head == <<text("Current state DeltaR. Char speed in danger.")>>
      sub == IF comoving_char_speed_will_not_recover(a, c)
               THEN switch_to_AhSpeed(i, a)
               ELSE [info |-> [i EXCEPT !.target_char_speed =
                                 optional(times(a.min_char_speed, non_oscillation_factor))],
                     written |-> {"target_char_speed"},
                     ss |-> <<text(" Staying in DeltaR.\n")>>]
      j == [sub.info EXCEPT !.suggested_time_scale = c.t_char_speed]
  IN [info |-> j,
      written |-> sub.written \cup {"suggested_time_scale"},
      ss |-> head \o sub.ss
               \o <<text(" Suggested timescale = "), opt(j.suggested_time_scale)>>]

\* Lines 52-79.
char_speed_branch(i, a, c) ==
  LET head == <<text("Current state DeltaR. Char speed in danger.")>>
      sub == IF comoving_char_speed_will_not_recover(a, c)
               THEN switch_to_AhSpeed(i, a)
               ELSE [info |-> i, written |-> {},
                     ss |-> <<text(" Staying in DeltaR.\n")>>]
      j == [sub.info EXCEPT !.suggested_time_scale = c.t_char_speed]
  IN [info |-> j,
      written |-> sub.written \cup {"suggested_time_scale"},
      ss |-> head \o sub.ss
               \o <<text(" Suggested timescale = "), opt(j.suggested_time_scale)>>]

\* Variant: the radius branch suggests the char-speed crossing time.
delta_radius_branch_with_char_speed_time(i, c) ==
  LET j == [i EXCEPT !.suggested_time_scale = c.t_char_speed]
  IN [info |-> j,
      written |-> {"suggested_time_scale"},
      ss |-> <<text("Current state DeltaR. Delta radius in danger. Staying in DeltaR.\n"),
               text(" Suggested timescale = "), opt(j.suggested_time_scale)>>]

\* Lines 80-83.
delta_radius_branch(i, c) ==
  LET j == [i EXCEPT !.suggested_time_scale = c.t_delta_radius]
  IN [info |-> j,
      written |-> {"suggested_time_scale"},
      ss |-> <<text("Current state DeltaR. Delta radius in danger. Staying in DeltaR.\n"),
               text(" Suggested timescale = "), opt(j.suggested_time_scale)>>]

\* Variant: the control error is compared without its absolute value.
control_error_is_large_signed(a) ==
  /\ a.min_comoving_char_speed > 0
  /\ a.control_error_delta_r > delta_r_control_error_threshold

\* Variant: the threshold itself counts as large.
control_error_is_large_or_equal(a) ==
  /\ a.min_comoving_char_speed > 0
  /\ abs(a.control_error_delta_r) >= delta_r_control_error_threshold

\* Lines 84-86.
control_error_is_large(a) ==
  /\ a.min_comoving_char_speed > 0
  /\ abs(a.control_error_delta_r) > delta_r_control_error_threshold

\* Variant: the decreased timescale is stored in damping_time.
decrease_timescale_branch_writing_damping_time(i, a) ==
  LET j == [i EXCEPT !.damping_time =
                        times(i.damping_time, delta_r_state_decrease_factor)]
  IN [info |-> j,
      written |-> {"damping_time"},
      ss |-> <<text("Current state DeltaR. Min comoving char speed "),
               double(a.min_comoving_char_speed),
               text(" > 0 and abs(control_error_delta_r) "),
               double(abs(a.control_error_delta_r)),
               text(" > threshold "),
               double(delta_r_control_error_threshold),
               text(". Staying in DeltaR.\n"),
               text(" Suggested timescale = "), opt(j.suggested_time_scale)>>]

\* Variant: the factor is the one greater than unity.
decrease_timescale_branch_increasing(i, a) ==
  LET j == [i EXCEPT !.suggested_time_scale =
                        optional(times(i.damping_time, non_oscillation_factor))]
  IN [info |-> j,
      written |-> {"suggested_time_scale"},
      ss |-> <<text("Current state DeltaR. Min comoving char speed "),
               double(a.min_comoving_char_speed),
               text(" > 0 and abs(control_error_delta_r) "),
               double(abs(a.control_error_delta_r)),
               text(" > threshold "),
               double(delta_r_control_error_threshold),
               text(". Staying in DeltaR.\n"),
               text(" Suggested timescale = "), opt(j.suggested_time_scale)>>]

\* Variant: an earlier suggestion, if there is one, is decreased further.
decrease_timescale_branch_compounding(i, a) ==
  LET j == [i EXCEPT !.suggested_time_scale =
                        optional(times(IF has_value(i.suggested_time_scale)
                                         THEN value(i.suggested_time_scale)
                                         ELSE i.damping_time,
                                       delta_r_state_decrease_factor))]
  IN [info |-> j,
      written |-> {"suggested_time_scale"},
      ss |-> <<text("Current state DeltaR. Min comoving char speed "),
               double(a.min_comoving_char_speed),
               text(" > 0 and abs(control_error_delta_r) "),
               double(abs(a.control_error_delta_r)),
               text(" > threshold "),
               double(delta_r_control_error_threshold),
               text(". Staying in DeltaR.\n"),
               text(" Suggested timescale = "), opt(j.suggested_time_scale)>>]

\* Lines 87-98.
decrease_timescale_branch(i, a) ==
  LET j == [i EXCEPT !.suggested_time_scale =
                        optional(times(i.damping_time, delta_r_state_decrease_factor))]
  IN [info |-> j,
      written |-> {"suggested_time_scale"},
      ss |-> <<text("Current state DeltaR. Min comoving char speed "),
               double(a.min_comoving_char_speed),
               text(" > 0 and abs(control_error_delta_r) "),
               double(abs(a.control_error_delta_r)),
               text(" > threshold "),
               double(delta_r_control_error_threshold),
               text(". Staying in DeltaR.\n"),
               text(" Suggested timescale = "), opt(j.suggested_time_scale)>>]

\* Variant: the last branch clears the suggestion.
no_change_branch_clearing(i) ==
  [info |-> [i EXCEPT !.suggested_time_scale = nullopt],
   written |-> {"suggested_time_scale"},
   ss |-> <<text("Current state DeltaR. No change necessary. Staying in DeltaR.")>>]

\* Variant: the last branch hands over to a drift state.
no_change_branch_drifting(i) ==
  [info |-> [i EXCEPT !.state = "DeltaRDriftOutward"],
   written |-> {"state"},
   ss |-> <<text("Current state DeltaR. No change necessary. Staying in DeltaR.")>>]

\* Lines 99-101.
no_change_branch(i) ==
  [info |-> i,
   written |-> {},
   ss |-> <<text("Current state DeltaR. No change necessary. Staying in DeltaR.")>>]

\* Variant: the control error is looked at before the two dangers.
update_control_error_first(i, a, c) ==
  IF control_error_is_large(a) THEN decrease_timescale_branch(i, a)
  ELSE IF char_speed_is_in_danger(i, c) THEN char_speed_branch(i, a, c)
  ELSE IF delta_radius_is_in_danger(i, c) THEN delta_radius_branch(i, c)
  ELSE no_change_branch(i)

\* The whole of DeltaR::update: the new Info and the returned string.
update(i, a, c) ==
  IF char_speed_is_in_danger(i, c) THEN char_speed_branch(i, a, c)
  ELSE IF delta_radius_is_in_danger(i, c) THEN delta_radius_branch(i, c)
  ELSE IF control_error_is_large(a) THEN decrease_timescale_branch(i, a)
  ELSE no_change_branch(i)

----------------------------------------------------------------------------
(* DeltaR::control_error *)

ControlErrorArgs == [control_error_delta_r : ControlErrors]

\* Variant: the control error is dropped once a discontinuous change occurred.
control_error_reading_info(i, control_error_args_) ==
  IF i.discontinuous_change_has_occurred
    THEN 0
    ELSE control_error_args_.control_error_delta_r

\* Lines 108-111: the Info is not looked at.
control_error(i, control_error_args_) ==
  control_error_args_.control_error_delta_r

----------------------------------------------------------------------------
(* The driver: it owns one Info whose active state is DeltaR and calls the *)
(* active state's update once per control-system evaluation.               *)

TypeOK ==
  /\ info.state \in States
  /\ info.damping_time \in DampingTimes
  /\ info.discontinuous_change_has_occurred \in BOOLEAN
  /\ pc \in {"idle", "returned", "published"}
  /\ written \subseteq {"state", "suggested_time_scale",
                         "discontinuous_change_has_occurred", "target_char_speed"}
  /\ control_error_result \in ControlErrors

NoUpdateArgs ==
  [control_error_delta_r |-> 0, min_char_speed |-> 100, min_comoving_char_speed |-> 0]

NoCrossingTimeInfo ==
  [t_char_speed |-> nullopt, t_delta_radius |-> nullopt,
   t_comoving_char_speed |-> nullopt,
   char_speed_will_hit_zero_first |-> FALSE,
   horizon_will_hit_excision_boundary_first |-> FALSE]

NoControlErrorArgs == [control_error_delta_r |-> 0]

\* Between two evaluations nothing of the last one is left but the Info.
Idle(i) ==
  /\ info_before = i
  /\ update_args = NoUpdateArgs
  /\ crossing_time_info = NoCrossingTimeInfo
  /\ in_danger = [delta_radius |-> FALSE, char_speed |-> FALSE]
  /\ diagnostic = <<>>
  /\ written = {}
  /\ control_error_args = NoControlErrorArgs
  /\ control_error_result = 0
  /\ pc = "idle"

\* The Info the driver starts from: state DeltaR, no suggestion yet; the flag
\* and the target char speed may be left over from an earlier AhSpeed phase.
Init ==
  /\ \E d \in DampingTimes, dc \in BOOLEAN, tcs \in {nullopt, optional(-101)} :
       info = [state |-> "DeltaR",
               damping_time |-> d,
               suggested_time_scale |-> nullopt,
               discontinuous_change_has_occurred |-> dc,
               target_char_speed |-> tcs]
  /\ Idle(info)

\* info->state->update(info, update_args, crossing_time_info), dispatched to
\* DeltaR::update because the active state is DeltaR.
Update ==
  /\ pc = "idle"
  /\ info.state = "DeltaR"
  /\ \E a \in StateUpdateArgs, c \in CrossingTimeInfo :
       LET r == update(info, a, c)
       IN /\ info' = r.info
          /\ diagnostic' = r.ss
          /\ written' = r.written
          /\ info_before' = info
          /\ update_args' = a
          /\ crossing_time_info' = c
          /\ in_danger' = [delta_radius |-> delta_radius_is_in_danger(info, c),
                           char_speed |-> char_speed_is_in_danger(info, c)]
          /\ pc' = "returned"
  /\ UNCHANGED <<control_error_args, control_error_result>>

\* info->state->control_error(info, control_error_args), dispatched to
\* DeltaR::control_error because the active state is DeltaR.
ControlError ==
  /\ pc = "idle"
  /\ info.state = "DeltaR"
  /\ \E e \in ControlErrorArgs :
       /\ control_error_args' = e
       /\ control_error_result' = control_error(info, e)
  /\ pc' = "published"
  /\ UNCHANGED <<info, info_before, update_args, crossing_time_info, in_danger,
                 diagnostic, written>>

\* The evaluation ends: the driver has reported the string or the control
\* error, and the per-evaluation arguments go out of scope.  The Info stays.
EndEvaluation ==
  /\ pc \in {"returned", "published"}
  /\ info' = info
  /\ info_before' = info
  /\ update_args' = NoUpdateArgs
  /\ crossing_time_info' = NoCrossingTimeInfo
  /\ in_danger' = [delta_radius |-> FALSE, char_speed |-> FALSE]
  /\ diagnostic' = <<>>
  /\ written' = {}
  /\ control_error_args' = NoControlErrorArgs
  /\ control_error_result' = 0
  /\ pc' = "idle"

Next == Update \/ ControlError \/ EndEvaluation

Spec == Init /\ [][Next]_vars

\* A fresh Info: state DeltaR, the flag clear, no target, no suggestion.
InitFresh ==
  /\ \E d \in DampingTimes :
       info = [state |-> "DeltaR",
               damping_time |-> d,
               suggested_time_scale |-> nullopt,
               discontinuous_change_has_occurred |-> FALSE,
               target_char_speed |-> nullopt]
  /\ Idle(info)

SpecFresh == InitFresh /\ [][Next]_vars

----------------------------------------------------------------------------
(* Properties of one evaluation.  They are read in the state DeltaR::update *)
(* returns in: info is the Info after the call, info_before the Info before *)
(* it, update_args and crossing_time_info the arguments of the call.        *)

Returned == pc = "returned"

\* Neither of the two danger booleans of the evaluation is true.
NoDanger == ~ in_danger.delta_radius /\ ~ in_danger.char_speed

\* C1: in no evaluation are delta_radius_is_in_danger and
\* char_speed_is_in_danger both true, whatever the 'first' flags, the
\* predicted times and the damping time.
C1_DangersExclusive ==
  Returned => ~ (in_danger.delta_radius /\ in_danger.char_speed)

\* Both 'first' flags are set and both predicted times are below their
\* thresholds: the evaluation flags the radius, not the char speed.
C1_Witness ==
  /\ Returned
  /\ crossing_time_info.char_speed_will_hit_zero_first
  /\ crossing_time_info.horizon_will_hit_excision_boundary_first
  /\ crossing_time_info.t_char_speed = optional(30)
  /\ crossing_time_info.t_delta_radius = optional(50)
  /\ info_before.damping_time = 100
  /\ in_danger.delta_radius

\* C2: after update the state is AhSpeed exactly when the char speed is in
\* danger and the comoving char speed is predicted to cross zero or is
\* already negative; in every other case the state is still DeltaR.
C2_AhSpeedIff ==
  Returned =>
    LET transition ==
          /\ in_danger.char_speed
          /\ \/ has_value(crossing_time_info.t_comoving_char_speed)
             \/ update_args.min_comoving_char_speed < 0
    IN /\ (info.state = "AhSpeed") <=> transition
       /\ ~ transition => info.state = "DeltaR"

\* A positive comoving speed that is predicted to cross zero: the transition
\* is taken.
C2_Witness ==
  /\ Returned
  /\ in_danger.char_speed
  /\ update_args.min_comoving_char_speed > 0
  /\ has_value(crossing_time_info.t_comoving_char_speed)
  /\ info_before.state = "DeltaR"
  /\ info.state = "AhSpeed"

\* C3: with the char speed in danger and a negative comoving char speed,
\* update switches to AhSpeed, sets target_char_speed to min_char_speed * 1.01,
\* sets discontinuous_change_has_occurred and sets suggested_time_scale to
\* t_char_speed.
C3_NegativeComovingSwitches ==
  (Returned /\ in_danger.char_speed /\ update_args.min_comoving_char_speed < 0) =>
    /\ info.state = "AhSpeed"
    /\ has_value(info.target_char_speed)
    /\ 100 * value(info.target_char_speed) = 101 * update_args.min_char_speed
    /\ info.discontinuous_change_has_occurred
    /\ info.suggested_time_scale = crossing_time_info.t_char_speed

\* The scenario of the specification: t_char_speed 3.0, damping_time 10.0,
\* min_comoving_char_speed -0.1, min_char_speed -0.2 give target -0.202 and
\* suggested timescale 3.0.
C3_Witness ==
  /\ Returned
  /\ crossing_time_info.char_speed_will_hit_zero_first
  /\ crossing_time_info.t_char_speed = optional(30)
  /\ info_before.damping_time = 100
  /\ update_args.min_comoving_char_speed = -100
  /\ update_args.min_char_speed = -200
  /\ ~ info_before.discontinuous_change_has_occurred
  /\ info.state = "AhSpeed"
  /\ info.target_char_speed = optional(-202)
  /\ info.discontinuous_change_has_occurred
  /\ info.suggested_time_scale = optional(30)

\* C4: with no danger and (min_comoving_char_speed <= 0 or
\* |control_error_delta_r| <= 1e-3), update stays in DeltaR and leaves
\* suggested_time_scale as it was, absent or present.
C4_NoChangeKeepsTimeScale ==
  (/\ Returned
   /\ NoDanger
   /\ \/ update_args.min_comoving_char_speed <= 0
      \/ abs(update_args.control_error_delta_r) <= 1) =>
    /\ info.state = "DeltaR"
    /\ info.suggested_time_scale = info_before.suggested_time_scale

\* A second evaluation that finds a suggestion left by the first, with a large
\* control error but a non-positive comoving speed: the suggestion stays.
C4_Witness ==
  /\ Returned
  /\ NoDanger
  /\ update_args.min_comoving_char_speed <= 0
  /\ abs(update_args.control_error_delta_r) > 1
  /\ has_value(info_before.suggested_time_scale)
  /\ info.suggested_time_scale = info_before.suggested_time_scale
  /\ info.state = "DeltaR"

\* C5: with the char speed in danger, no predicted comoving crossing and
\* min_comoving_char_speed >= 0, update stays in DeltaR, leaves
\* discontinuous_change_has_occurred and target_char_speed as they were, and
\* sets suggested_time_scale to t_char_speed.
C5_SelfCorrectingStays ==
  (/\ Returned
   /\ in_danger.char_speed
   /\ ~ has_value(crossing_time_info.t_comoving_char_speed)
   /\ update_args.min_comoving_char_speed >= 0) =>
    /\ info.state = "DeltaR"
    /\ info.discontinuous_change_has_occurred
         = info_before.discontinuous_change_has_occurred
    /\ info.target_char_speed = info_before.target_char_speed
    /\ info.suggested_time_scale = crossing_time_info.t_char_speed

\* The comoving speed is exactly 0 and the Info still carries a flag and a
\* target from an earlier phase.
C5_Witness ==
  /\ Returned
  /\ in_danger.char_speed
  /\ ~ has_value(crossing_time_info.t_comoving_char_speed)
  /\ update_args.min_comoving_char_speed = 0
  /\ info_before.discontinuous_change_has_occurred
  /\ has_value(info_before.target_char_speed)
  /\ info_before.suggested_time_scale # crossing_time_info.t_char_speed
  /\ info.state = "DeltaR"
  /\ info.suggested_time_scale = crossing_time_info.t_char_speed

\* horizon_will_hit_excision_boundary_first and t_delta_radius <
\* damping_time * 0.99, from the arguments of the call.
RadiusCrossesWithinTolerance ==
  /\ crossing_time_info.horizon_will_hit_excision_boundary_first
  /\ has_value(crossing_time_info.t_delta_radius)
  /\ 100 * value(crossing_time_info.t_delta_radius) < 99 * info_before.damping_time

\* C6: when the horizon will hit the excision boundary first and
\* t_delta_radius < damping_time * 0.99, update stays in DeltaR and sets
\* suggested_time_scale to t_delta_radius.
C6_RadiusDangerSuggestsCrossingTime ==
  (Returned /\ RadiusCrossesWithinTolerance) =>
    /\ in_danger.delta_radius
    /\ info.state = "DeltaR"
    /\ info.suggested_time_scale = crossing_time_info.t_delta_radius

\* The scenario of the specification: t_delta_radius 5.0 and damping_time 10.0
\* give suggested timescale 5.0 (here with a char-speed crossing predicted too).
C6_Witness ==
  /\ Returned
  /\ crossing_time_info.horizon_will_hit_excision_boundary_first
  /\ crossing_time_info.t_delta_radius = optional(50)
  /\ crossing_time_info.t_char_speed = optional(30)
  /\ info_before.damping_time = 100
  /\ in_danger.delta_radius
  /\ info.state = "DeltaR"
  /\ info.suggested_time_scale = optional(50)

\* C7: with no danger, min_comoving_char_speed > 0 and
\* |control_error_delta_r| > 1e-3 (either sign), update stays in DeltaR and
\* sets suggested_time_scale to damping_time * 0.99.
C7_LargeErrorShrinksTimeScale ==
  (/\ Returned
   /\ NoDanger
   /\ update_args.min_comoving_char_speed > 0
   /\ \/ update_args.control_error_delta_r > 1
      \/ update_args.control_error_delta_r < -1) =>
    /\ info.state = "DeltaR"
    /\ has_value(info.suggested_time_scale)
    /\ 100 * value(info.suggested_time_scale) = 99 * info_before.damping_time

\* The scenario of the specification: control_error_delta_r 2e-3,
\* min_comoving_char_speed 0.5, no predicted crossing, damping_time 10.0 give 9.9.
C7_Witness ==
  /\ Returned
  /\ update_args.control_error_delta_r = 2
  /\ update_args.min_comoving_char_speed = 500
  /\ crossing_time_info.t_char_speed = nullopt
  /\ crossing_time_info.t_delta_radius = nullopt
  /\ crossing_time_info.t_comoving_char_speed = nullopt
  /\ info_before.damping_time = 100
  /\ info_before.suggested_time_scale = nullopt
  /\ info.state = "DeltaR"
  /\ info.suggested_time_scale = optional(99)

\* C8: with no danger and min_comoving_char_speed > 0, a control error of
\* exactly 1e-3 in absolute value does not shrink the timescale:
\* suggested_time_scale is unchanged and the state stays DeltaR.
C8_ThresholdIsStrict ==
  (/\ Returned
   /\ NoDanger
   /\ update_args.min_comoving_char_speed > 0
   /\ update_args.control_error_delta_r \in {-1, 1}) =>
    /\ info.state = "DeltaR"
    /\ info.suggested_time_scale = info_before.suggested_time_scale

\* A control error of exactly -1e-3 with a positive comoving speed and a
\* positive damping time; the earlier suggestion, which is not
\* damping_time * 0.99, is still there.
C8_Witness ==
  /\ Returned
  /\ NoDanger
  /\ update_args.min_comoving_char_speed > 0
  /\ update_args.control_error_delta_r = -1
  /\ info_before.damping_time = 100
  /\ info_before.suggested_time_scale = optional(30)
  /\ info.suggested_time_scale = optional(30)
  /\ info.state = "DeltaR"

\* C9: an evaluation that switches to AhSpeed sets
\* discontinuous_change_has_occurred, and an evaluation that stays in DeltaR
\* leaves the flag with the value it had before the call.
C9_FlagFollowsTransition ==
  Returned =>
    /\ info.state = "AhSpeed" => info.discontinuous_change_has_occurred
    /\ info.state = "DeltaR" =>
         info.discontinuous_change_has_occurred
           = info_before.discontinuous_change_has_occurred
    /\ (info.discontinuous_change_has_occurred
          /\ ~ info_before.discontinuous_change_has_occurred)
         <=> (info.state = "AhSpeed" /\ ~ info_before.discontinuous_change_has_occurred)

\* The flag was clear before the evaluation that switches to AhSpeed.
C9_Witness ==
  /\ Returned
  /\ info_before.state = "DeltaR"
  /\ ~ info_before.discontinuous_change_has_occurred
  /\ info.state = "AhSpeed"
  /\ info.discontinuous_change_has_occurred

\* C10: from DeltaR no sequence of evaluations reaches DeltaRDriftInward or
\* DeltaRDriftOutward: the active state is always DeltaR or AhSpeed.
C10_DriftStatesUnreachable ==
  /\ info.state \in {"DeltaR", "AhSpeed"}
  /\ info.state \notin {"DeltaRDriftInward", "DeltaRDriftOutward"}

\* A later evaluation of a sequence (the Info carries an earlier suggestion)
\* that ends in AhSpeed.
C10_Witness ==
  /\ Returned
  /\ has_value(info_before.suggested_time_scale)
  /\ info_before.state = "DeltaR"
  /\ info.state = "AhSpeed"

\* C11: starting from an Info without a suggestion, suggested_time_scale is
\* in every reachable state either absent or a positive number.
C11_TimeScaleAbsentOrPositive ==
  has_value(info.suggested_time_scale) => value(info.suggested_time_scale) > 0

\* C12 as stated: after any update a value held in suggested_time_scale was
\* written by that call, never left over from an earlier evaluation.
C12_TimeScaleWrittenEachEvaluation ==
  (Returned /\ has_value(info.suggested_time_scale)) =>
    "suggested_time_scale" \in written

\* C12, amended: update writes suggested_time_scale exactly in the three
\* branches char speed in danger, delta radius in danger and large control
\* error; in the no-change branch it does not write it, and the value of an
\* earlier evaluation stays.
C12_TimeScaleWrittenExceptNoChange ==
  Returned =>
    LET large ==
          /\ update_args.min_comoving_char_speed > 0
          /\ \/ update_args.control_error_delta_r > 1
             \/ update_args.control_error_delta_r < -1
    IN /\ ("suggested_time_scale" \in written)
            <=> (in_danger.char_speed \/ in_danger.delta_radius \/ large)
       /\ "suggested_time_scale" \notin written
            => info.suggested_time_scale = info_before.suggested_time_scale

\* An evaluation in the no-change branch that finds, and leaves, the
\* suggestion of an earlier evaluation.
C12_Witness ==
  /\ Returned
  /\ NoDanger
  /\ has_value(info_before.suggested_time_scale)
  /\ "suggested_time_scale" \notin written
  /\ info.suggested_time_scale = info_before.suggested_time_scale
  /\ diagnostic = <<text("Current state DeltaR. No change necessary. Staying in DeltaR.")>>

\* C13: update called with damping_time <= 0 does not return normally.
C13_DegenerateDampingTimeAsserted ==
  ~ (Returned /\ info_before.damping_time <= 0)

Published == pc = "published"

\* C14: control_error returns control_error_args.control_error_delta_r
\* unchanged, whatever the Info; so equal arguments give equal results.
C14_ControlErrorIsDeltaR ==
  Published => control_error_result = control_error_args.control_error_delta_r

\* control_error with a negative control error, on an Info that earlier
\* evaluations have written to.
C14_Witness ==
  /\ Published
  /\ control_error_args.control_error_delta_r = -2
  /\ control_error_result = -2
  /\ info.discontinuous_change_has_occurred
  /\ has_value(info.suggested_time_scale)
  /\ has_value(info.target_char_speed)

\* min_comoving_char_speed > 0 and |control_error_delta_r| > 1e-3, from the
\* arguments of the call.
LargeControlError ==
  /\ update_args.min_comoving_char_speed > 0
  /\ \/ update_args.control_error_delta_r > 1
     \/ update_args.control_error_delta_r < -1

\* The suggestion has the value damping_time * 0.99.
SuggestsDecreasedDampingTime ==
  /\ has_value(info.suggested_time_scale)
  /\ 100 * value(info.suggested_time_scale) = 99 * info_before.damping_time

\* C15 as stated: with a danger and a large control error together, the
\* suggestion is the crossing time of the danger branch and never
\* damping_time * 0.99.
C15_DangerSuggestionNeverDecreasedDampingTime ==
  (Returned /\ ~ NoDanger /\ LargeControlError) =>
    /\ in_danger.char_speed
         => info.suggested_time_scale = crossing_time_info.t_char_speed
    /\ in_danger.delta_radius
         => info.suggested_time_scale = crossing_time_info.t_delta_radius
    /\ ~ SuggestsDecreasedDampingTime

\* C15, amended: with a danger and a large control error together, only the
\* danger branch acts: the string is the danger branch's and the suggestion is
\* its crossing time; the suggestion has the value damping_time * 0.99 only
\* when t_char_speed itself has that value.
C15_DangerBranchWins ==
  (Returned /\ ~ NoDanger /\ LargeControlError) =>
    /\ in_danger.char_speed =>
         /\ info.suggested_time_scale = crossing_time_info.t_char_speed
         /\ Head(diagnostic) = text("Current state DeltaR. Char speed in danger.")
    /\ in_danger.delta_radius =>
         /\ info.suggested_time_scale = crossing_time_info.t_delta_radius
         /\ Head(diagnostic)
              = text("Current state DeltaR. Delta radius in danger. Staying in DeltaR.\n")
         /\ ~ SuggestsDecreasedDampingTime
    /\ SuggestsDecreasedDampingTime =>
         /\ in_danger.char_speed
         /\ 100 * value(crossing_time_info.t_char_speed) = 99 * info_before.damping_time

\* The radius is in danger while the control error is large and the comoving
\* speed positive: the suggestion is 5.0, not 9.9.
C15_Witness ==
  /\ Returned
  /\ in_danger.delta_radius
  /\ update_args.min_comoving_char_speed = 500
  /\ update_args.control_error_delta_r = 2
  /\ crossing_time_info.t_delta_radius = optional(50)
  /\ info_before.damping_time = 100
  /\ info.suggested_time_scale = optional(50)

\* C17: no step changes Info.damping_time: neither a branch of update nor
\* control_error.
C17_DampingTimeReadOnly ==
  [][info'.damping_time = info.damping_time]_vars

\* An evaluation that wrote every field update can write, with the damping
\* time as it was.
C17_Witness ==
  /\ Returned
  /\ written = {"discontinuous_change_has_occurred", "state", "target_char_speed",
                "suggested_time_scale"}
  /\ info_before.damping_time = 100
  /\ info.damping_time = 100
  /\ info.suggested_time_scale # info_before.suggested_time_scale

\* C18: radius danger takes precedence over char-speed danger: with the
\* radius crossing within tolerance, even if the char speed crosses first within
\* damping_time and the comoving speed is negative, update does not switch to
\* AhSpeed, sets neither the flag nor the target, and suggests t_delta_radius.
C18_RadiusDangerTakesPrecedence ==
  (/\ Returned
   /\ RadiusCrossesWithinTolerance
   /\ crossing_time_info.char_speed_will_hit_zero_first
   /\ has_value(crossing_time_info.t_char_speed)
   /\ value(crossing_time_info.t_char_speed) < info_before.damping_time
   /\ update_args.min_comoving_char_speed < 0) =>
    /\ info.state = "DeltaR"
    /\ info.discontinuous_change_has_occurred
         = info_before.discontinuous_change_has_occurred
    /\ info.target_char_speed = info_before.target_char_speed
    /\ written = {"suggested_time_scale"}
    /\ info.suggested_time_scale = crossing_time_info.t_delta_radius

\* Both flags set, both times within their thresholds, a negative comoving
\* speed, on an Info with the flag clear and no target.
C18_Witness ==
  /\ Returned
  /\ crossing_time_info.horizon_will_hit_excision_boundary_first
  /\ crossing_time_info.char_speed_will_hit_zero_first
  /\ crossing_time_info.t_delta_radius = optional(50)
  /\ crossing_time_info.t_char_speed = optional(30)
  /\ info_before.damping_time = 100
  /\ update_args.min_comoving_char_speed < 0
  /\ ~ info_before.discontinuous_change_has_occurred
  /\ info_before.target_char_speed = nullopt
  /\ info.state = "DeltaR"
  /\ info.suggested_time_scale = optional(50)

\* C19: both thresholds are strict and differ by the tolerance 0.99: a
\* radius time t >= damping_time * 0.99 (equality included) is not in danger;
\* a char-speed time t with damping_time * 0.99 <= t < damping_time is in danger
\* (the radius not being in danger); a char-speed time equal to damping_time
\* is not in danger.
C19_ThresholdsStrict ==
  Returned =>
    LET d == info_before.damping_time
        tc == crossing_time_info.t_char_speed
        tr == crossing_time_info.t_delta_radius
    IN /\ (/\ crossing_time_info.horizon_will_hit_excision_boundary_first
           /\ has_value(tr)
           /\ 100 * value(tr) >= 99 * d) => ~ in_danger.delta_radius
       /\ (/\ crossing_time_info.char_speed_will_hit_zero_first
           /\ has_value(tc)
           /\ 100 * value(tc) >= 99 * d
           /\ value(tc) < d
           /\ ~ in_danger.delta_radius) => in_danger.char_speed
       /\ (/\ crossing_time_info.char_speed_will_hit_zero_first
           /\ has_value(tc)
           /\ value(tc) >= d) => ~ in_danger.char_speed

\* Both flags set and both times 9.9 with damping_time 10.0: the char speed is
\* in danger, the radius is not.
C19_Witness ==
  /\ Returned
  /\ crossing_time_info.horizon_will_hit_excision_boundary_first
  /\ crossing_time_info.char_speed_will_hit_zero_first
  /\ crossing_time_info.t_delta_radius = optional(99)
  /\ crossing_time_info.t_char_speed = optional(99)
  /\ info_before.damping_time = 100
  /\ in_danger.char_speed
  /\ ~ in_danger.delta_radius

\* C20: an absent predicted time is never in danger, whatever the 'first'
\* flags and the damping time; with both times absent the evaluation takes the
\* control-error branch or the no-change branch.
C20_AbsentTimeIsNeverInDanger ==
  Returned =>
    /\ crossing_time_info.t_delta_radius = nullopt => ~ in_danger.delta_radius
    /\ crossing_time_info.t_char_speed = nullopt => ~ in_danger.char_speed
    /\ (/\ crossing_time_info.t_delta_radius = nullopt
        /\ crossing_time_info.t_char_speed = nullopt) =>
         /\ info.state = "DeltaR"
         /\ Head(diagnostic) \in
              {text("Current state DeltaR. Min comoving char speed "),
               text("Current state DeltaR. No change necessary. Staying in DeltaR.")}

\* Both flags set, both times absent, a positive damping time.
C20_Witness ==
  /\ Returned
  /\ crossing_time_info.horizon_will_hit_excision_boundary_first
  /\ crossing_time_info.char_speed_will_hit_zero_first
  /\ crossing_time_info.t_delta_radius = nullopt
  /\ crossing_time_info.t_char_speed = nullopt
  /\ info_before.damping_time = 100
  /\ NoDanger
  /\ info.state = "DeltaR"

\* The string holds the piece x.
Contains(seq, x) == \E k \in 1 .. Len(seq) : seq[k] = x

\* C21: the returned string names the branch taken: it says 'Switching to
\* AhSpeed' exactly when the evaluation replaced the state with AhSpeed, it
\* says 'No change necessary' exactly when no field of Info was written, and
\* whenever suggested_time_scale was written it ends with the value just
\* written.
C21_DiagnosticNamesBranch ==
  Returned =>
    /\ Contains(diagnostic, text(" Switching to AhSpeed.\n"))
         <=> ("state" \in written /\ info.state = "AhSpeed")
    /\ Contains(diagnostic,
                text("Current state DeltaR. No change necessary. Staying in DeltaR."))
         <=> written = {}
    /\ "suggested_time_scale" \in written =>
         /\ Len(diagnostic) >= 2
         /\ diagnostic[Len(diagnostic) - 1] = text(" Suggested timescale = ")
         /\ diagnostic[Len(diagnostic)] = opt(info.suggested_time_scale)

\* An evaluation in the char-speed branch that replaces an earlier suggestion
\* by a different one and reports the new one.
C21_Witness ==
  /\ Returned
  /\ in_danger.char_speed
  /\ "suggested_time_scale" \in written
  /\ has_value(info_before.suggested_time_scale)
  /\ info.suggested_time_scale # info_before.suggested_time_scale
  /\ diagnostic[Len(diagnostic)] = opt(info.suggested_time_scale)

\* C22: target_char_speed is written only by an evaluation that switches to
\* AhSpeed; every evaluation that stays in DeltaR leaves it as it was, absent
\* or present.
C22_TargetOnlyWrittenBySwitch ==
  Returned =>
    /\ info.state = "DeltaR" =>
         /\ "target_char_speed" \notin written
         /\ info.target_char_speed = info_before.target_char_speed
    /\ "target_char_speed" \in written => info.state = "AhSpeed"

\* The char speed is in danger but DeltaR is kept, on an Info that carries a
\* target from an earlier phase.
C22_Witness ==
  /\ Returned
  /\ in_danger.char_speed
  /\ info.state = "DeltaR"
  /\ has_value(info_before.target_char_speed)
  /\ info.target_char_speed = info_before.target_char_speed
  /\ update_args.min_char_speed = -200

\* C23: with damping_time > 0, every value update writes to
\* suggested_time_scale is present and strictly less than damping_time.
C23_SuggestionBelowDampingTime ==
  (/\ Returned
   /\ info_before.damping_time > 0
   /\ "suggested_time_scale" \in written) =>
    /\ has_value(info.suggested_time_scale)
    /\ value(info.suggested_time_scale) < info_before.damping_time

\* The control-error branch with damping_time 10.0 writes 9.9.
C23_Witness ==
  /\ Returned
  /\ NoDanger
  /\ info_before.damping_time = 100
  /\ "suggested_time_scale" \in written
  /\ info.suggested_time_scale = optional(99)

\* C24: from a fresh Info (state DeltaR, flag clear, no target), whenever the
\* state is AhSpeed the flag is set and both target_char_speed and
\* suggested_time_scale are present.
C24_AhSpeedCarriesItsOutputs ==
  info.state = "AhSpeed" =>
    /\ info.discontinuous_change_has_occurred
    /\ has_value(info.target_char_speed)
    /\ has_value(info.suggested_time_scale)

\* The switch to AhSpeed on an Info that had neither flag nor target.
C24_Witness ==
  /\ Returned
  /\ info_before.state = "DeltaR"
  /\ ~ info_before.discontinuous_change_has_occurred
  /\ info_before.target_char_speed = nullopt
  /\ info.state = "AhSpeed"
  /\ info.target_char_speed = optional(-202)

\* The Info of the call with its three outputs blanked.
InfoBeforeWithoutOutputs ==
  [info_before EXCEPT !.suggested_time_scale = nullopt,
                      !.target_char_speed = nullopt,
                      !.discontinuous_change_has_occurred = FALSE]

\* C25: the decision of update does not depend on the outputs an earlier
\* evaluation left in Info: the same call on the Info with suggested_time_scale,
\* target_char_speed and the flag blanked takes the same branch (same string,
\* same fields written), ends in the same state and writes the same values.
C25_DecisionIgnoresPreviousOutputs ==
  Returned =>
    LET r == update(InfoBeforeWithoutOutputs, update_args, crossing_time_info)
    IN /\ r.ss = diagnostic
       /\ r.written = written
       /\ r.info.state = info.state
       /\ r.info.damping_time = info.damping_time
       /\ "suggested_time_scale" \in written
            => r.info.suggested_time_scale = info.suggested_time_scale
       /\ "target_char_speed" \in written
            => r.info.target_char_speed = info.target_char_speed
       /\ "discontinuous_change_has_occurred" \in written
            => r.info.discontinuous_change_has_occurred
                 = info.discontinuous_change_has_occurred

\* A call on an Info that carries all three outputs of earlier evaluations,
\* with the radius crossing after the earlier suggestion but within tolerance.
C25_Witness ==
  /\ Returned
  /\ info_before.suggested_time_scale = optional(30)
  /\ has_value(info_before.target_char_speed)
  /\ info_before.discontinuous_change_has_occurred
  /\ in_danger.delta_radius
  /\ crossing_time_info.t_delta_radius = optional(50)
  /\ info.suggested_time_scale = optional(50)

\* C26: an evaluation that stays in DeltaR is idempotent: update applied again
\* with the same arguments to the Info it left yields the same Info and the
\* same string.
C26_StayingEvaluationIdempotent ==
  (Returned /\ info.state = "DeltaR") =>
    LET r == update(info, update_args, crossing_time_info)
    IN /\ r.info = info
       /\ r.ss = diagnostic

\* An evaluation that stays in DeltaR and changes the suggestion.
C26_Witness ==
  /\ Returned
  /\ info.state = "DeltaR"
  /\ NoDanger
  /\ info_before.suggested_time_scale = nullopt
  /\ info.suggested_time_scale = optional(99)
  /\ info.damping_time = 100

====
